---- MODULE Spec2Model ----
(***************************************************************************)
(* The GPT request layer of src/server/openai/request.ts: the token budget *)
(* (getMaxTokensForResponse), the dispatcher with its rate-limit backoff   *)
(* (sendGptRequest), the schema-validated extractor                        *)
(* (sendGptRequestWithSchema) and the vision adapter                       *)
(* (sendGptVisionRequest), run by one caller against a provider and an     *)
(* event store whose answers are nondeterministic.                         *)
(*                                                                         *)
(* A prompt text is represented by what the tokenizer makes of it: the     *)
(* number of tokens, or the fact that encode() throws on it.  A response   *)
(* text is a sequence of lines, each line a sequence of lexical tokens.    *)
(*                                                                         *)
(* SpecPair runs two sendGptRequest calls concurrently.  SpecJira and      *)
(* SpecJiraSerial model fetchNewJiraIssues of src/server/utils/jira.ts,    *)
(* run for its two callers with and without overlapping runs.              *)
(* SpecJiraCallers runs it under fetchAllNewJiraIssues and syncJiraBoard.  *)
(* SpecTodo models createTodo and cloneAndGetSourceMap, SpecFixError the   *)
(* function fixError.                                                      *)
(***************************************************************************)
EXTENDS Integers, Sequences, FiniteSets, TLC

VARIABLES
    pc,              \* where the caller's logical task stands
    entry,           \* the exported function the caller invoked
    args,            \* the arguments of that invocation
    frame,           \* parameters of the running sendGptRequest invocation
    requests,        \* requests sent to the provider by the running sendGptRequest call chain
    attempts,        \* how each attempt of that call chain ended
    waits,           \* the setTimeout delays scheduled by that call chain
    pending,         \* the provider's content while the usage event is being written
    schemaRetries,   \* the local `retries` counter of sendGptRequestWithSchema
    dispatcherCalls, \* sendGptRequest invocations made by sendGptRequestWithSchema
    extractorLog,    \* why each failed attempt of sendGptRequestWithSchema failed
    events,          \* usage events written to db.events
    outcome,         \* what the caller's invocation returned or threw
    jobs,            \* the fetchNewJiraIssues invocation of each of its callers
    issuesTable,     \* db.issues: the number of records per (issueBoardId, issueId)
    gitHubIssues,    \* createGitHubIssue calls made per (issueBoardId, issueId)
    started,         \* fetchNewJiraIssues invocations started so far
    calls,           \* the sendGptRequest call of each of two concurrent tasks
    eventStore,      \* db.events: the usage events written, per task's baseEventData
    cronTask,        \* the invocation of fetchAllNewJiraIssues
    syncTask,        \* the invocation of syncJiraBoard
    todoTask,        \* the running or last invocation of createTodo
    todosTable,      \* db.todos: the number of records per (projectId, issueId)
    mapTask,         \* the running or last invocation of cloneAndGetSourceMap
    invoked,         \* createTodo and cloneAndGetSourceMap invocations so far
    fixTask          \* the invocation of fixError

requestVars == <<pc, entry, args, frame, requests, attempts, waits, pending,
                 schemaRetries, dispatcherCalls, extractorLog, events, outcome>>

jiraVars == <<jobs, issuesTable, gitHubIssues, started>>

pairVars == <<calls, eventStore>>

callerVars == <<cronTask, syncTask>>

todoVars == <<todoTask, todosTable, mapTask, invoked>>

fixVars == <<fixTask>>

vars == <<requestVars, jiraVars, pairVars, callerVars, todoVars, fixVars>>

\* what a step of the request layer leaves alone
nonRequestVars == <<jiraVars, pairVars, callerVars, todoVars, fixVars>>

\* what a step of the Jira synchronisation leaves alone
nonJiraVars == <<requestVars, pairVars, callerVars, todoVars, fixVars>>

\* what a step of one of two concurrent sendGptRequest calls leaves alone
nonPairVars == <<requestVars, jiraVars, callerVars, todoVars, fixVars>>

\* what a step of createTodo or cloneAndGetSourceMap leaves alone
nonTodoVars == <<requestVars, jiraVars, pairVars, callerVars, fixVars>>

\* what a step of fixError leaves alone
nonFixVars == <<requestVars, jiraVars, pairVars, callerVars, todoVars>>

----------------------------------------------------------------------------
(* Bounds of the model *)

MaxSlack == 1
MaxRetriesArg == 1
MaxDelayArg == 1
MaxSchemaRetries == 2
MaxElems == 2
MaxRuns == 2
MaxInvocations == 3
MaxBodyLen == 3

(* Defaults of the source *)

DefaultRetries == 10
DefaultDelay == 60000
DefaultMaxRetries == 3

\* temperature = 0.2, in tenths
DefaultTemperature == 2

----------------------------------------------------------------------------
(* Model profiles *)

Models == {"gpt-4-0613", "gpt-4-vision-preview", "gpt-4-turbo-preview"}

DefaultModel == "gpt-4-turbo-preview"

VisionModel == "gpt-4-vision-preview"

CONTEXT_WINDOW(model) ==
    CASE model = "gpt-4-0613" -> 8192
      [] model = "gpt-4-vision-preview" -> 128000
      [] model = "gpt-4-turbo-preview" -> 128000

MAX_OUTPUT(model) ==
    CASE model = "gpt-4-0613" -> 8192
      [] model = "gpt-4-vision-preview" -> 4096
      [] model = "gpt-4-turbo-preview" -> 4096

Min(a, b) == IF a <= b THEN a ELSE b

\* Math.ceil(maxContextTokens * 0.01)
Padding(maxContextTokens) == (maxContextTokens + 99) \div 100

\* Math.round(x / 2): halves round up
RoundHalf(x) == (x + 1) \div 2

----------------------------------------------------------------------------
(* Prompt texts and the tokenizer *)

Text(n) == [tokens |-> n, encodable |-> TRUE]

\* a text holding a special token, on which encode() throws
Unencodable == [tokens |-> 0, encodable |-> FALSE]

\* userPrompt + systemPrompt
Concat(a, b) ==
    [tokens |-> a.tokens + b.tokens, encodable |-> a.encodable /\ b.encodable]

\* an empty prompt, an unencodable one, and for each model a prompt that
\* leaves MaxSlack tokens free under the padding and one that fills the window
UserPrompts ==
    {Text(0), Unencodable}
    \cup {Text(CONTEXT_WINDOW(m) - Padding(CONTEXT_WINDOW(m)) - MaxSlack) :
              m \in Models}
    \cup {Text(CONTEXT_WINDOW(m)) : m \in Models}

\* an empty system prompt, and one that takes the last free tokens
SystemPrompts == {Text(0), Text(MaxSlack)}

\* the fallback without the halving
FallbackMaxTokens_WholeWindow(model) == CONTEXT_WINDOW(model)

\* the catch block: Math.round(CONTEXT_WINDOW[model] / 2)
FallbackMaxTokens(model) == RoundHalf(CONTEXT_WINDOW(model))

\* the budget without the cap of MAX_OUTPUT
getMaxTokensForResponse_NoCap(inputText, model) ==
    IF ~inputText.encodable
    THEN FallbackMaxTokens(model)
    ELSE LET maxTokensForResponse ==
                 CONTEXT_WINDOW(model) - inputText.tokens
                     - Padding(CONTEXT_WINDOW(model))
         IN  IF maxTokensForResponse <= 0
             THEN FallbackMaxTokens(model)
             ELSE maxTokensForResponse

\* the budget with the test `< 0` in place of `<= 0`
getMaxTokensForResponse_StrictTest(inputText, model) ==
    IF ~inputText.encodable
    THEN FallbackMaxTokens(model)
    ELSE LET maxTokensForResponse ==
                 CONTEXT_WINDOW(model) - inputText.tokens
                     - Padding(CONTEXT_WINDOW(model))
         IN  IF maxTokensForResponse < 0
             THEN FallbackMaxTokens(model)
             ELSE Min(maxTokensForResponse, MAX_OUTPUT(model))

getMaxTokensForResponse(inputText, model) ==
    IF ~inputText.encodable
    THEN FallbackMaxTokens(model)
    ELSE LET numberOfInputTokens == inputText.tokens
             maxContextTokens == CONTEXT_WINDOW(model)
             padding == Padding(maxContextTokens)
             maxTokensForResponse == maxContextTokens - numberOfInputTokens - padding
         IN  IF maxTokensForResponse <= 0
             THEN FallbackMaxTokens(model)
             ELSE Min(maxTokensForResponse, MAX_OUTPUT(model))

----------------------------------------------------------------------------
(* Response texts, markdown stripping, parsing and the schema *)

Items == {"a1", "a2", "bad"}

\* a line that starts with three backquotes
Fence == <<"fence">>

RECURSIVE Separated(_)
\* the tokens of a comma-separated list of items
Separated(elems) ==
    IF elems = <<>> THEN <<>>
    ELSE IF Len(elems) = 1 THEN <<elems[1]>>
    ELSE <<elems[1], ",">> \o Separated(Tail(elems))

ArrayLine(elems) == <<"[">> \o Separated(elems) \o <<"]">>

\* the arrays of distinct items, up to MaxElems long
Arrays ==
    {a \in UNION {[1..n -> Items] : n \in 0..MaxElems} :
        \A i, j \in DOMAIN a : a[i] = a[j] => i = j}

Bodies ==
    {<<ArrayLine(a)>> : a \in Arrays}
    \cup {<<<<i>>>> : i \in Items}
    \cup {<<<<"prose">>>>}

Fenced(body) == <<Fence>> \o body \o <<Fence>>

EmptyString == <<>>

ResponseTexts == Bodies \cup {Fenced(b) : b \in Bodies} \cup {EmptyString}

removeMarkdownCodeblocks(text) ==
    SelectSeq(text, LAMBDA line : line = <<>> \/ line[1] # "fence")

RECURSIVE Join(_)
Join(lines) == IF lines = <<>> THEN <<>> ELSE Head(lines) \o Join(Tail(lines))

Undefined == [kind |-> "undefined", elems |-> <<>>]

RECURSIVE ParseElements(_)
\* the items of a comma-separated list, or <<"error">> when it is none
ParseElements(toks) ==
    IF toks = <<>> THEN <<"error">>
    ELSE IF toks[1] \notin Items THEN <<"error">>
    ELSE IF Len(toks) = 1 THEN <<toks[1]>>
    ELSE IF toks[2] # "," THEN <<"error">>
    ELSE LET rest == ParseElements(SubSeq(toks, 3, Len(toks)))
         IN  IF rest = <<"error">> THEN rest ELSE <<toks[1]>> \o rest

\* parse() of jsonc-parser on the texts of ResponseTexts
parse(text) ==
    LET toks == Join(text) IN
    IF Len(toks) = 1 /\ toks[1] \in Items
    THEN [kind |-> "value", elems |-> toks]
    ELSE IF Len(toks) >= 2 /\ toks[1] = "[" /\ toks[Len(toks)] = "]"
    THEN IF Len(toks) = 2
         THEN [kind |-> "array", elems |-> <<>>]
         ELSE LET e == ParseElements(SubSeq(toks, 2, Len(toks) - 1))
              IN  IF e = <<"error">> THEN Undefined
                  ELSE [kind |-> "array", elems |-> e]
    ELSE Undefined

\* the caller's schema: what it accepts, and the data it normalizes to
ValidItems == {"a1", "a2"}

Normalize(item) ==
    CASE item = "a1" -> "A1"
      [] item = "a2" -> "A2"
      [] OTHER -> "none"

safeParse(item) == [success |-> item \in ValidItems, data |-> Normalize(item)]

----------------------------------------------------------------------------
(* Values and errors *)

NullContent == [kind |-> "null", text |-> <<>>, data |-> <<>>]

Content(t) == [kind |-> "text", text |-> t, data |-> <<>>]

Data(kind, elems) == [kind |-> kind, text |-> <<>>, data |-> elems]

NoError == [kind |-> "none", at |-> 0, prompt |-> {}]

Error(kind, at) == [kind |-> kind, at |-> at, prompt |-> {}]

MaxRetriesExceeded(userPrompt) ==
    [kind |-> "max_retries", at |-> 0, prompt |-> {userPrompt}]

\* error.response?.status
Status(error) ==
    CASE error.kind = "rate_limit" -> 429
      [] error.kind = "provider" -> 500
      [] OTHER -> 0

Returned(value) == [kind |-> "return", value |-> value, error |-> NoError]

Thrown(error) == [kind |-> "throw", value |-> NullContent, error |-> error]

NoOutcome == [kind |-> "none", value |-> NullContent, error |-> NoError]

Attempt(kind, content) == [kind |-> kind, content |-> content]

NoArgs ==
    [userPrompt |-> Text(0), systemPrompt |-> Text(0), baseEventData |-> FALSE,
     retries |-> 0, delay |-> 0, imagePrompt |-> FALSE, model |-> DefaultModel,
     maxRetries |-> 0, snapshotUrl |-> FALSE, temperature |-> DefaultTemperature]

Frame(retries, delay, imagePrompt, model) ==
    [retries |-> retries, delay |-> delay, imagePrompt |-> imagePrompt,
     model |-> model]

RetryArgs ==
    ((0..MaxRetriesArg) \X (1..MaxDelayArg))
    \cup {<<DefaultRetries, DefaultDelay>>}

\* sampling temperatures a caller passes, in tenths
Temperatures == {0, DefaultTemperature}

----------------------------------------------------------------------------
(* The initial state: no call has been made, no run started *)

Callers == {"cron", "sync"}

Boards == {"b1", "b2"}

\* the ids of the Jira issues of a project
IssueIds == {"10001", "10002"}

\* data.issues of a search response: distinct Jira issues, in any order
SearchResults ==
    {s \in UNION {[1..n -> IssueIds] : n \in 0..Cardinality(IssueIds)} :
        \A i, j \in DOMAIN s : s[i] = s[j] => i = j}

NoJob ==
    [pc |-> "idle", board |-> "b1", issues |-> <<>>, numAttempts |-> 0,
     skipped |-> {}, caught |-> FALSE, result |-> "none"]

JiraInit ==
    /\ jobs = [c \in Callers |-> NoJob]
    /\ issuesTable = [k \in Boards \X IssueIds |-> 0]
    /\ gitHubIssues = [k \in Boards \X IssueIds |-> 0]
    /\ started = 0

\* two logical tasks that call sendGptRequest concurrently
Tasks == {"t1", "t2"}

\* the parameters and locals of one sendGptRequest call
NoCall ==
    [pc |-> "idle", args |-> NoArgs, frame |-> Frame(0, 0, FALSE, DefaultModel),
     requests |-> <<>>, attempts |-> <<>>, waits |-> <<>>,
     pending |-> NullContent, outcome |-> NoOutcome]

PairInit ==
    /\ calls = [t \in Tasks |-> NoCall]
    /\ eventStore = [t \in Tasks |-> 0]

\* fetchAllNewJiraIssues not invoked: its board list, the boards still to
\* process, how each processed board ended, and how the function ended
NoCronTask ==
    [pc |-> "idle", list |-> <<>>, rest |-> <<>>, processed |-> <<>>,
     result |-> "none"]

\* syncJiraBoard not invoked
NoSyncTask ==
    [pc |-> "idle", board |-> "b1", caught |-> FALSE, result |-> "none"]

CallersInit ==
    /\ cronTask = NoCronTask
    /\ syncTask = NoSyncTask

Projects == {"p1", "p2"}

IssueNumbers == {7, 8}

TodoKeys == Projects \X IssueNumbers

\* createTodo not invoked: its arguments, the cleanupClone variable, the
\* effects of the invocation, the cleanup calls made, and how it ended
NoTodoTask ==
    [pc |-> "idle", validRepo |-> TRUE, accessToken |-> TRUE, agentRepo |-> FALSE,
     projectId |-> "p1", issueNumber |-> 7, cleanupClone |-> FALSE,
     effects |-> {}, cleanups |-> 0, result |-> "none"]

\* cloneAndGetSourceMap not invoked
NoMapTask ==
    [pc |-> "idle", cleanupClone |-> FALSE, cleanups |-> 0, result |-> "none"]

TodoInit ==
    /\ todoTask = NoTodoTask
    /\ todosTable = [k \in TodoKeys |-> 0]
    /\ mapTask = NoMapTask
    /\ invoked = 0

\* the pieces of a pull request body that the parsing of fixError tells apart
ErrorMessageHeading == "## Error Message"

\* a line break, three backquotes and a line break
headingEndMarker == "<fence>"

AttemptTexts == {"Attempt Number 2", "Attempt Number 3"}

BodyTokens == {ErrorMessageHeading, headingEndMarker, "text"} \cup AttemptTexts

\* body: string | null
NullBody == [null |-> TRUE, text |-> <<>>]

PullRequestBodies ==
    {NullBody} \cup
    {[null |-> FALSE, text |-> t] :
        t \in UNION {[1..n -> BodyTokens] : n \in 0..MaxBodyLen}}

\* fixError not invoked: its parameters, the assessment, the
\* buildErrorAttemptNumber of each checkAndCommit call, the comments posted,
\* the step that threw, and how the invocation ended
NoFixTask ==
    [pc |-> "idle", prIssue |-> FALSE, body |-> NullBody,
     needsNpmInstall |-> FALSE, checkAndCommitCalls |-> <<>>, comments |-> 0,
     failed |-> "none", result |-> "none"]

FixInit == fixTask = NoFixTask

Init ==
    /\ pc = "idle"
    /\ entry = "none"
    /\ args = NoArgs
    /\ frame = Frame(0, 0, FALSE, DefaultModel)
    /\ requests = <<>>
    /\ attempts = <<>>
    /\ waits = <<>>
    /\ pending = NullContent
    /\ schemaRetries = 0
    /\ dispatcherCalls = 0
    /\ extractorLog = <<>>
    /\ events = 0
    /\ outcome = NoOutcome
    /\ JiraInit
    /\ PairInit
    /\ CallersInit
    /\ TodoInit
    /\ FixInit

----------------------------------------------------------------------------
(* sendGptRequestWithSchema: what it does with one answer of sendGptRequest *)

Failed(why) == [ok |-> FALSE, data |-> NullContent, why |-> why]

Extracted(data) == [ok |-> TRUE, data |-> data, why |-> "none"]

\* the data of all but the last element
ValidatedData_DropLast(validatedInfo) ==
    [i \in 1..(Len(validatedInfo) - 1) |-> validatedInfo[i].data]

\* validatedInfo.map((result) => result.data)
ValidatedData(validatedInfo) ==
    [i \in DOMAIN validatedInfo |-> validatedInfo[i].data]

\* the list is rejected only when every element failed
HasFailures_AllFailed(validatedInfo) ==
    /\ validatedInfo # <<>>
    /\ \A i \in DOMAIN validatedInfo : ~validatedInfo[i].success

\* failedValidations.length > 0
HasFailures(validatedInfo) ==
    Len(SelectSeq(validatedInfo, LAMBDA r : ~r.success)) > 0

\* the try block after the await: empty check, stripping, parsing, validation
Extract(result) ==
    IF result.kind = "throw"
    THEN Failed(result.error.kind)
    ELSE IF result.value.kind = "null" \/ result.value.text = EmptyString
    THEN Failed("empty")
    ELSE LET gptResponse == removeMarkdownCodeblocks(result.value.text)
             extractedInfo == parse(gptResponse)
         IN  IF extractedInfo.kind = "array"
             THEN LET validatedInfo ==
                          [i \in DOMAIN extractedInfo.elems |->
                              safeParse(extractedInfo.elems[i])]
                  IN  IF HasFailures(validatedInfo)
                      THEN Failed("invalid")
                      ELSE Extracted(Data("array", ValidatedData(validatedInfo)))
             ELSE IF extractedInfo.kind = "value"
                      /\ safeParse(extractedInfo.elems[1]).success
             THEN Extracted(Data("value", <<safeParse(extractedInfo.elems[1]).data>>))
             ELSE Failed("invalid")

\* the call made with no retries left to it
ExtractorFrame_NoRetry == Frame(0, DefaultDelay, FALSE, DefaultModel)

\* sendGptRequest(userPrompt, systemPrompt, temperature, baseEventData): the
\* other parameters take their defaults
ExtractorFrame == Frame(DefaultRetries, DefaultDelay, FALSE, DefaultModel)

\* the counter left as it is
NextSchemaRetries_Same(retries) == retries

\* the counter raised by two
NextSchemaRetries_Twice(retries) == retries + 2

\* retries++
NextSchemaRetries(retries) == retries + 1

\* the test stopping one attempt early
HasAttemptsLeft_OneLess(retries, maxRetries) == retries + 1 < maxRetries

\* the test letting the counter reach maxRetries
HasAttemptsLeft_Inclusive(retries, maxRetries) == retries <= maxRetries

\* while (retries < maxRetries)
HasAttemptsLeft(retries, maxRetries) == retries < maxRetries

\* the while loop's test with the counter at n, and the call that opens an attempt
ExtractorLoop(n, log, a, att) ==
    /\ schemaRetries' = n
    /\ extractorLog' = log
    /\ IF HasAttemptsLeft(n, a.maxRetries)
       THEN /\ pc' = "send"
            /\ frame' = ExtractorFrame
            /\ dispatcherCalls' = dispatcherCalls + 1
            /\ requests' = <<>>
            /\ attempts' = <<>>
            /\ waits' = <<>>
            /\ outcome' = outcome
       ELSE /\ pc' = "done"
            /\ outcome' = Thrown(MaxRetriesExceeded(a.userPrompt))
            /\ attempts' = att
            /\ UNCHANGED <<frame, dispatcherCalls, requests, waits>>

\* the running sendGptRequest call chain settles with `result`
Settle(result, att) ==
    IF entry # "schema"
    THEN /\ pc' = "done"
         /\ outcome' = result
         /\ attempts' = att
         /\ UNCHANGED <<frame, requests, waits, schemaRetries, dispatcherCalls,
                        extractorLog>>
    ELSE LET x == Extract(result) IN
         IF x.ok
         THEN /\ pc' = "done"
              /\ outcome' = Returned(x.data)
              /\ attempts' = att
              /\ UNCHANGED <<frame, requests, waits, schemaRetries,
                             dispatcherCalls, extractorLog>>
         ELSE ExtractorLoop(NextSchemaRetries(schemaRetries),
                            Append(extractorLog, x.why), args, att)

----------------------------------------------------------------------------
(* sendGptRequest *)

\* the test without its status clause: any error is retried while retries remain
ShouldRethrow_AnyError(retries, error) == retries = 0

\* the test of the catch block
ShouldRethrow(retries, error) == retries = 0 \/ Status(error) # 429

\* the delay passed on without doubling
NextDelay_Same(delay) == delay

\* delay * 2
NextDelay(delay) == delay * 2

\* the counter passed on without the decrement
NextRetries_Same(retries) == retries

\* retries - 1
NextRetries(retries) == retries - 1

\* the catch block
Catch(error, att) ==
    IF ShouldRethrow(frame.retries, error)
    THEN Settle(Thrown(error), att)
    ELSE /\ pc' = "backoff"
         /\ waits' = Append(waits, frame.delay)
         /\ attempts' = att
         /\ UNCHANGED <<frame, requests, schemaRetries, dispatcherCalls,
                        extractorLog, outcome>>

Messages(imagePrompt) ==
    IF imagePrompt THEN <<"image", "system", "user">> ELSE <<"system", "user">>

\* the token budget is computed and the request goes to the provider
Dispatch ==
    /\ pc = "send"
    /\ LET inputText == Concat(args.userPrompt, args.systemPrompt)
           max_tokens == getMaxTokensForResponse(inputText, frame.model)
       IN  requests' = Append(requests,
               [model |-> frame.model,
                messages |-> Messages(frame.imagePrompt),
                max_tokens |-> max_tokens,
                temperature |-> args.temperature,
                inputText |-> inputText])
    /\ pc' = "awaiting"
    /\ UNCHANGED <<entry, args, frame, attempts, waits, pending, schemaRetries,
                   dispatcherCalls, extractorLog, events, outcome>>
    /\ UNCHANGED nonRequestVars

\* the provider rejects the request: a rate limit (429) or another failure
ProviderFails ==
    /\ pc = "awaiting"
    /\ \E kind \in {"rate_limit", "provider"} :
          Catch(Error(kind, Len(requests)),
                Append(attempts, Attempt(kind, NullContent)))
    /\ UNCHANGED <<entry, args, pending, events>>
    /\ UNCHANGED nonRequestVars

ProviderContents == {NullContent} \cup {Content(t) : t \in ResponseTexts}

\* an event is written whether or not baseEventData was passed
WritesEvent_Always(baseEventData) == TRUE

\* if (baseEventData) { await db.events.insert(...) }
WritesEvent(baseEventData) == baseEventData

\* the provider answers; without baseEventData the content is returned
ProviderAnswers ==
    /\ pc = "awaiting"
    /\ \E content \in ProviderContents :
          IF WritesEvent(args.baseEventData)
          THEN /\ pc' = "inserting"
               /\ pending' = content
               /\ UNCHANGED <<frame, requests, attempts, waits, schemaRetries,
                              dispatcherCalls, extractorLog, outcome>>
          ELSE /\ pending' = pending
               /\ Settle(Returned(content),
                         Append(attempts, Attempt("ok", content)))
    /\ UNCHANGED <<entry, args, events>>
    /\ UNCHANGED nonRequestVars

\* db.events.insert succeeds and the content is returned
EventInserted ==
    /\ pc = "inserting"
    /\ events' = events + 1
    /\ pending' = NullContent
    /\ Settle(Returned(pending), Append(attempts, Attempt("ok", pending)))
    /\ UNCHANGED <<entry, args>>
    /\ UNCHANGED nonRequestVars

\* the failure of the insert is swallowed and the response returned
OnInsertFailure_Swallowed(error, att) == Settle(Returned(pending), att)

\* the insert is awaited inside the try block: its failure reaches the catch
OnInsertFailure(error, att) == Catch(error, att)

\* db.events.insert throws inside the try block
EventInsertFails ==
    /\ pc = "inserting"
    /\ pending' = NullContent
    /\ OnInsertFailure(Error("persistence", Len(requests)),
                       Append(attempts, Attempt("persistence", pending)))
    /\ UNCHANGED <<entry, args, events>>
    /\ UNCHANGED nonRequestVars

\* the timer of the catch block fires: the recursive call
TimerFires ==
    /\ pc = "backoff"
    /\ frame' = Frame(NextRetries(frame.retries), NextDelay(frame.delay),
                      FALSE, DefaultModel)
    /\ pc' = "send"
    /\ UNCHANGED <<entry, args, requests, attempts, waits, pending,
                   schemaRetries, dispatcherCalls, extractorLog, events,
                   outcome>>
    /\ UNCHANGED nonRequestVars

----------------------------------------------------------------------------
(* The caller's invocations *)

CallSendGptRequest ==
    /\ pc = "idle"
    /\ \E u \in UserPrompts, s \in SystemPrompts, b \in BOOLEAN,
          rd \in RetryArgs, i \in BOOLEAN, m \in Models, t \in Temperatures :
          /\ args' = [NoArgs EXCEPT !.userPrompt = u, !.systemPrompt = s,
                          !.temperature = t,
                          !.baseEventData = b, !.retries = rd[1],
                          !.delay = rd[2], !.imagePrompt = i, !.model = m]
          /\ frame' = Frame(rd[1], rd[2], i, m)
    /\ entry' = "direct"
    /\ pc' = "send"
    /\ UNCHANGED <<requests, attempts, waits, pending, schemaRetries,
                   dispatcherCalls, extractorLog, events, outcome>>
    /\ UNCHANGED nonRequestVars

CallSendGptVisionRequest ==
    /\ pc = "idle"
    /\ \E u \in UserPrompts, s \in SystemPrompts, b \in BOOLEAN,
          rd \in RetryArgs, url \in BOOLEAN, t \in Temperatures :
          /\ args' = [NoArgs EXCEPT !.userPrompt = u, !.systemPrompt = s,
                          !.temperature = t,
                          !.baseEventData = b, !.retries = rd[1],
                          !.delay = rd[2], !.snapshotUrl = url]
          /\ frame' = IF url
                      THEN Frame(rd[1], rd[2], TRUE, VisionModel)
                      ELSE Frame(rd[1], rd[2], FALSE, DefaultModel)
    /\ entry' = "vision"
    /\ pc' = "send"
    /\ UNCHANGED <<requests, attempts, waits, pending, schemaRetries,
                   dispatcherCalls, extractorLog, events, outcome>>
    /\ UNCHANGED nonRequestVars

SchemaRetryArgs == (0..MaxSchemaRetries) \cup {DefaultMaxRetries}

CallSendGptRequestWithSchema ==
    /\ pc = "idle"
    /\ \E u \in UserPrompts, s \in SystemPrompts, b \in BOOLEAN,
          n \in SchemaRetryArgs, t \in Temperatures :
          LET a == [NoArgs EXCEPT !.userPrompt = u, !.systemPrompt = s,
                        !.temperature = t,
                        !.baseEventData = b, !.maxRetries = n]
          IN  /\ args' = a
              /\ ExtractorLoop(0, <<>>, a, attempts)
    /\ entry' = "schema"
    /\ UNCHANGED <<pending, events>>
    /\ UNCHANGED nonRequestVars

Next ==
    \/ CallSendGptRequest
    \/ CallSendGptVisionRequest
    \/ CallSendGptRequestWithSchema
    \/ Dispatch
    \/ ProviderFails
    \/ ProviderAnswers
    \/ EventInserted
    \/ EventInsertFails
    \/ TimerFires

----------------------------------------------------------------------------
(***************************************************************************)
(* The Jira synchronisation of src/server/utils/jira.ts:                   *)
(* fetchNewJiraIssues as run on behalf of its two callers, the hourly      *)
(* fetchAllNewJiraIssues ("cron") and the user-triggered syncJiraBoard     *)
(* ("sync"), against the issues table and GitHub.  Every await of the      *)
(* function is a point where the other caller's run may take steps.        *)
(***************************************************************************)

Running(c) == jobs[c].pc \notin {"idle", "done"}

\* the promise of the run settles: "resolved", or rejected with an error
Finished(job, result) ==
    [job EXCEPT !.pc = "done", !.issues = <<>>, !.result = result]

\* the for loop moves to the next issue, or the function returns
Continue(job) ==
    IF Len(job.issues) > 1
    THEN [job EXCEPT !.pc = "find", !.issues = Tail(job.issues)]
    ELSE Finished(job, "resolved")

\* the existence check finds nothing
existingIssue_NotFound(board, issue) == FALSE

\* db.issues.findByOptional({ issueBoardId, issueId })
existingIssue(board, issue) == issuesTable[<<board, issue>>] > 0

\* a caller invokes fetchNewJiraIssues for a board (numAttempts = 0)
CallFetchNewJiraIssues(c) ==
    /\ ~Running(c)
    /\ started < MaxRuns
    /\ \E b \in Boards :
          jobs' = [jobs EXCEPT ![c] = [NoJob EXCEPT !.pc = "search", !.board = b]]
    /\ started' = started + 1
    /\ UNCHANGED <<issuesTable, gitHubIssues>>
    /\ UNCHANGED nonJiraVars

\* the same, made when no other run is under way
CallFetchNewJiraIssuesAlone(c) ==
    /\ \A d \in Callers : ~Running(d)
    /\ CallFetchNewJiraIssues(c)

\* db.issueBoards.findBy or db.projects.findBy throws, outside the try block
LookupFails(c) ==
    /\ jobs[c].pc = "search"
    /\ jobs' = [jobs EXCEPT ![c] = Finished(@, "lookup_error")]
    /\ UNCHANGED <<issuesTable, gitHubIssues, started>>
    /\ UNCHANGED nonJiraVars

\* the recursion gives up one attempt earlier
TooManyAttempts_AtThree(numAttempts) == numAttempts >= 3

\* if (numAttempts > 3) throw new Error("Failed to fetch Jira issues")
TooManyAttempts(numAttempts) == numAttempts > 3

\* the search answers 401: the token is refreshed and the function calls
\* itself with numAttempts + 1, which throws once numAttempts > 3
SearchUnauthorized(c) ==
    /\ jobs[c].pc = "search"
    /\ jobs' = [jobs EXCEPT ![c] =
                   IF TooManyAttempts(@.numAttempts + 1)
                   THEN Finished([@ EXCEPT !.numAttempts = @ + 1],
                                 "failed_to_fetch")
                   ELSE [@ EXCEPT !.numAttempts = @ + 1]]
    /\ UNCHANGED <<issuesTable, gitHubIssues, started>>
    /\ UNCHANGED nonJiraVars

\* the search answers with the issues created in the last two hours
SearchSucceeds(c) ==
    /\ jobs[c].pc = "search"
    /\ \E s \in SearchResults :
          jobs' = [jobs EXCEPT ![c] =
                      IF s = <<>> THEN Finished(@, "resolved")
                      ELSE [@ EXCEPT !.pc = "find", !.issues = s]]
    /\ UNCHANGED <<issuesTable, gitHubIssues, started>>
    /\ UNCHANGED nonJiraVars

\* the existence check of the loop: a recorded issue is skipped
FindExisting(c) ==
    /\ jobs[c].pc = "find"
    /\ LET issue == Head(jobs[c].issues) IN
       jobs' = [jobs EXCEPT ![c] =
                   IF existingIssue(@.board, issue)
                   THEN Continue([@ EXCEPT !.skipped = @ \cup {issue}])
                   ELSE [@ EXCEPT !.pc = "create"]]
    /\ UNCHANGED <<issuesTable, gitHubIssues, started>>
    /\ UNCHANGED nonJiraVars

\* db.issues.create, then the check of the repository's full name
CreateIssueRecord(c) ==
    /\ jobs[c].pc = "create"
    /\ issuesTable' =
           [issuesTable EXCEPT ![<<jobs[c].board, Head(jobs[c].issues)>>] = @ + 1]
    /\ \E validRepoFullName \in BOOLEAN :
          jobs' = [jobs EXCEPT ![c] =
                      IF validRepoFullName THEN [@ EXCEPT !.pc = "rewrite"]
                      ELSE Finished([@ EXCEPT !.caught = TRUE], "resolved")]
    /\ UNCHANGED <<gitHubIssues, started>>
    /\ UNCHANGED nonJiraVars

\* rewriteGitHubIssue returns the description
RewriteGitHubIssue(c) ==
    /\ jobs[c].pc = "rewrite"
    /\ jobs' = [jobs EXCEPT ![c].pc = "github"]
    /\ UNCHANGED <<issuesTable, gitHubIssues, started>>
    /\ UNCHANGED nonJiraVars

\* createGitHubIssue creates the issue on GitHub
CreateGitHubIssue(c) ==
    /\ jobs[c].pc = "github"
    /\ gitHubIssues' =
           [gitHubIssues EXCEPT ![<<jobs[c].board, Head(jobs[c].issues)>>] = @ + 1]
    /\ jobs' = [jobs EXCEPT ![c] = Continue(@)]
    /\ UNCHANGED <<issuesTable, started>>
    /\ UNCHANGED nonJiraVars

\* an awaited call inside the try block throws (the search or its response
\* not ok, the token refresh, the database, rewriteGitHubIssue,
\* createGitHubIssue): the catch block logs it and the function returns
AwaitThrows(c) ==
    /\ Running(c)
    /\ jobs' = [jobs EXCEPT ![c] = Finished([@ EXCEPT !.caught = TRUE], "resolved")]
    /\ UNCHANGED <<issuesTable, gitHubIssues, started>>
    /\ UNCHANGED nonJiraVars

\* a step of a run of fetchNewJiraIssues
RunStep(c) ==
    \/ LookupFails(c)
    \/ SearchUnauthorized(c)
    \/ SearchSucceeds(c)
    \/ FindExisting(c)
    \/ CreateIssueRecord(c)
    \/ RewriteGitHubIssue(c)
    \/ CreateGitHubIssue(c)
    \/ AwaitThrows(c)

\* the runs of the two callers interleave
JiraNext == \E c \in Callers : CallFetchNewJiraIssues(c) \/ RunStep(c)

\* a run starts only when no other run is under way
JiraSerialNext == \E c \in Callers : CallFetchNewJiraIssuesAlone(c) \/ RunStep(c)

----------------------------------------------------------------------------
(***************************************************************************)
(* Two logical tasks call sendGptRequest concurrently.  The parameters and *)
(* locals of the function (messages, max_tokens, retries, delay) belong to *)
(* each invocation; the module holds only constants and the provider       *)
(* client, and db.events is only inserted into.  A step is what one call   *)
(* does between two awaits.                                                *)
(***************************************************************************)

\* the arguments of the concurrent calls
PairArgs ==
    {[NoArgs EXCEPT !.userPrompt = u, !.baseEventData = b, !.retries = rd[1],
                    !.delay = rd[2], !.imagePrompt = im[1], !.model = im[2]] :
        u \in {Text(0), Text(1)}, b \in BOOLEAN,
        rd \in {<<0, 1>>, <<1, 1>>, <<1, 2>>},
        im \in {<<FALSE, DefaultModel>>, <<TRUE, VisionModel>>}}

\* the provider's answers to the concurrent calls
PairContents == {NullContent, Content(<<<<"prose">>>>)}

\* a blocking wait: the whole process sleeps
Suspends_Process(waiting, task) == TRUE

\* await new Promise(... setTimeout(..., delay)): the wait suspends the
\* invocation that awaits it
Suspends(waiting, task) == waiting = task

\* no wait of another invocation keeps the task from running
CanRun(t) ==
    \A u \in Tasks \ {t} : calls[u].pc = "backoff" => ~Suspends(u, t)

\* the invocation of task t settles
PairSettle(t, call, result) ==
    calls' = [calls EXCEPT ![t] = [call EXCEPT !.pc = "done", !.outcome = result]]

\* the catch block of task t's invocation
PairCatch(t, call, error) ==
    IF ShouldRethrow(call.frame.retries, error)
    THEN PairSettle(t, call, Thrown(error))
    ELSE calls' = [calls EXCEPT ![t] =
                      [call EXCEPT !.pc = "backoff",
                                   !.waits = Append(@, call.frame.delay)]]

PairCall(t) ==
    /\ calls[t].pc = "idle"
    /\ CanRun(t)
    /\ \E a \in PairArgs :
          calls' = [calls EXCEPT ![t] =
                       [NoCall EXCEPT !.pc = "send", !.args = a,
                            !.frame = Frame(a.retries, a.delay, a.imagePrompt,
                                            a.model)]]
    /\ UNCHANGED eventStore
    /\ UNCHANGED nonPairVars

PairDispatch(t) ==
    /\ calls[t].pc = "send"
    /\ CanRun(t)
    /\ LET call == calls[t]
           inputText == Concat(call.args.userPrompt, call.args.systemPrompt)
           max_tokens == getMaxTokensForResponse(inputText, call.frame.model)
       IN  calls' = [calls EXCEPT ![t] =
                        [call EXCEPT !.pc = "awaiting",
                             !.requests = Append(@,
                                 [model |-> call.frame.model,
                                  messages |-> Messages(call.frame.imagePrompt),
                                  max_tokens |-> max_tokens,
                                  temperature |-> call.args.temperature,
                                  inputText |-> inputText])]]
    /\ UNCHANGED eventStore
    /\ UNCHANGED nonPairVars

PairProviderFails(t) ==
    /\ calls[t].pc = "awaiting"
    /\ CanRun(t)
    /\ \E kind \in {"rate_limit", "provider"} :
          PairCatch(t, [calls[t] EXCEPT !.attempts =
                                     Append(@, Attempt(kind, NullContent))],
                    Error(kind, Len(calls[t].requests)))
    /\ UNCHANGED eventStore
    /\ UNCHANGED nonPairVars

PairProviderAnswers(t) ==
    /\ calls[t].pc = "awaiting"
    /\ CanRun(t)
    /\ \E content \in PairContents :
          IF WritesEvent(calls[t].args.baseEventData)
          THEN calls' = [calls EXCEPT ![t].pc = "inserting",
                                      ![t].pending = content]
          ELSE PairSettle(t, [calls[t] EXCEPT !.attempts =
                                           Append(@, Attempt("ok", content))],
                          Returned(content))
    /\ UNCHANGED eventStore
    /\ UNCHANGED nonPairVars

PairEventInserted(t) ==
    /\ calls[t].pc = "inserting"
    /\ CanRun(t)
    /\ eventStore' = [eventStore EXCEPT ![t] = @ + 1]
    /\ PairSettle(t, [calls[t] EXCEPT !.pending = NullContent,
                          !.attempts = Append(@, Attempt("ok", calls[t].pending))],
                  Returned(calls[t].pending))
    /\ UNCHANGED nonPairVars

PairEventInsertFails(t) ==
    /\ calls[t].pc = "inserting"
    /\ CanRun(t)
    /\ PairCatch(t, [calls[t] EXCEPT !.pending = NullContent,
                         !.attempts =
                             Append(@, Attempt("persistence", calls[t].pending))],
                 Error("persistence", Len(calls[t].requests)))
    /\ UNCHANGED eventStore
    /\ UNCHANGED nonPairVars

PairTimerFires(t) ==
    /\ calls[t].pc = "backoff"
    /\ calls' = [calls EXCEPT ![t].pc = "send",
                    ![t].frame = Frame(NextRetries(@.retries), NextDelay(@.delay),
                                       FALSE, DefaultModel)]
    /\ UNCHANGED eventStore
    /\ UNCHANGED nonPairVars

\* a step of task t's invocation
PairStep(t) ==
    \/ PairDispatch(t)
    \/ PairProviderFails(t)
    \/ PairProviderAnswers(t)
    \/ PairEventInserted(t)
    \/ PairEventInsertFails(t)
    \/ PairTimerFires(t)

PairNext == \E t \in Tasks : PairCall(t) \/ PairStep(t)

----------------------------------------------------------------------------
(***************************************************************************)
(* The two callers of fetchNewJiraIssues in src/server/utils/jira.ts:      *)
(* fetchAllNewJiraIssues, which walks the Jira boards of the database, and *)
(* syncJiraBoard.  Each is invoked once; the runs of fetchNewJiraIssues    *)
(* they start are the jobs "cron" and "sync", which interleave.            *)
(***************************************************************************)

\* db.issueBoards.where({ issueSource: JIRA }): distinct boards, in any order
BoardLists ==
    {l \in UNION {[1..n -> Boards] : n \in 0..Cardinality(Boards)} :
        \A i, j \in DOMAIN l : l[i] = l[j] => i = j}

\* fetchNewJiraIssues({ ..., boardId }) is invoked for caller c
StartJob(c, board) ==
    jobs' = [jobs EXCEPT ![c] = [NoJob EXCEPT !.pc = "search", !.board = board]]

\* the loop ends at the first board that fails
NextBoard_StopOnFailure(task, how) ==
    LET done == [task EXCEPT
                    !.processed = Append(@, [board |-> Head(task.rest),
                                             outcome |-> how])]
    IN  IF Len(task.rest) > 1 /\ how = "resolved"
        THEN [done EXCEPT !.pc = "precheck", !.rest = Tail(@)]
        ELSE [done EXCEPT !.pc = "done", !.rest = <<>>, !.result = "returned"]

\* the end of the loop body, by completion or through its catch block: the
\* for loop takes the next board, or the function returns
NextBoard(task, how) ==
    LET done == [task EXCEPT
                    !.processed = Append(@, [board |-> Head(task.rest),
                                             outcome |-> how])]
    IN  IF Len(task.rest) > 1
        THEN [done EXCEPT !.pc = "precheck", !.rest = Tail(@)]
        ELSE [done EXCEPT !.pc = "done", !.rest = <<>>, !.result = "returned"]

CallFetchAllNewJiraIssues ==
    /\ cronTask.pc = "idle"
    /\ cronTask' = [cronTask EXCEPT !.pc = "loading"]
    /\ UNCHANGED <<syncTask, jiraVars>>
    /\ UNCHANGED <<requestVars, pairVars, todoVars, fixVars>>

\* db.issueBoards.where throws: the error is logged and the function returns
BoardsLoadFails ==
    /\ cronTask.pc = "loading"
    /\ cronTask' = [cronTask EXCEPT !.pc = "done", !.result = "returned"]
    /\ UNCHANGED <<syncTask, jiraVars>>
    /\ UNCHANGED <<requestVars, pairVars, todoVars, fixVars>>

BoardsLoaded ==
    /\ cronTask.pc = "loading"
    /\ \E l \in BoardLists :
          cronTask' = IF l = <<>>
                      THEN [cronTask EXCEPT !.pc = "done", !.result = "returned"]
                      ELSE [cronTask EXCEPT !.pc = "precheck", !.list = l,
                                            !.rest = l]
    /\ UNCHANGED <<syncTask, jiraVars>>
    /\ UNCHANGED <<requestVars, pairVars, todoVars, fixVars>>

\* the account or its Jira token, the project's cloud id or the GitHub token
\* is missing, or refreshGitHubAccessToken throws: the catch block logs it
BoardPrecheckFails ==
    /\ cronTask.pc = "precheck"
    /\ cronTask' = NextBoard(cronTask, "not_fetched")
    /\ UNCHANGED <<syncTask, jiraVars>>
    /\ UNCHANGED <<requestVars, pairVars, todoVars, fixVars>>

\* account, project and GitHub token are there: fetchNewJiraIssues is called
BoardFetchCalled ==
    /\ cronTask.pc = "precheck"
    /\ cronTask' = [cronTask EXCEPT !.pc = "calling"]
    /\ StartJob("cron", Head(cronTask.rest))
    /\ UNCHANGED <<syncTask, issuesTable, gitHubIssues, started>>
    /\ UNCHANGED <<requestVars, pairVars, todoVars, fixVars>>

\* the awaited fetchNewJiraIssues settles: resolved, or rejected into the catch
BoardFetchSettles ==
    /\ cronTask.pc = "calling"
    /\ jobs["cron"].pc = "done"
    /\ cronTask' = NextBoard(cronTask, jobs["cron"].result)
    /\ jobs' = [jobs EXCEPT !["cron"] = NoJob]
    /\ UNCHANGED <<syncTask, issuesTable, gitHubIssues, started>>
    /\ UNCHANGED <<requestVars, pairVars, todoVars, fixVars>>

CallSyncJiraBoard ==
    /\ syncTask.pc = "idle"
    /\ \E b \in Boards : syncTask' = [syncTask EXCEPT !.pc = "setup", !.board = b]
    /\ UNCHANGED <<cronTask, jiraVars>>
    /\ UNCHANGED <<requestVars, pairVars, todoVars, fixVars>>

\* the board request is not ok, or the board or project lookup or the board
\* creation throws: syncJiraBoard rejects
SyncSetupFails ==
    /\ syncTask.pc = "setup"
    /\ syncTask' = [syncTask EXCEPT !.pc = "done", !.result = "threw"]
    /\ UNCHANGED <<cronTask, jiraVars>>
    /\ UNCHANGED <<requestVars, pairVars, todoVars, fixVars>>

\* the board is fetched and recorded: fetchNewJiraIssues is called
SyncFetchCalled ==
    /\ syncTask.pc = "setup"
    /\ syncTask' = [syncTask EXCEPT !.pc = "calling"]
    /\ StartJob("sync", syncTask.board)
    /\ UNCHANGED <<cronTask, issuesTable, gitHubIssues, started>>
    /\ UNCHANGED <<requestVars, pairVars, todoVars, fixVars>>

\* the awaited fetchNewJiraIssues settles: return { success: true }, or its
\* rejection is the rejection of syncJiraBoard (`caught` keeps whether the
\* run's catch block had swallowed an error)
SyncFetchSettles ==
    /\ syncTask.pc = "calling"
    /\ jobs["sync"].pc = "done"
    /\ syncTask' = [syncTask EXCEPT !.pc = "done",
                       !.caught = jobs["sync"].caught,
                       !.result = IF jobs["sync"].result = "resolved"
                                  THEN "success" ELSE "threw"]
    /\ jobs' = [jobs EXCEPT !["sync"] = NoJob]
    /\ UNCHANGED <<cronTask, issuesTable, gitHubIssues, started>>
    /\ UNCHANGED <<requestVars, pairVars, todoVars, fixVars>>

CallersNext ==
    \/ CallFetchAllNewJiraIssues
    \/ BoardsLoadFails
    \/ BoardsLoaded
    \/ BoardPrecheckFails
    \/ BoardFetchCalled
    \/ BoardFetchSettles
    \/ CallSyncJiraBoard
    \/ SyncSetupFails
    \/ SyncFetchCalled
    \/ SyncFetchSettles
    \/ \E c \in Callers : RunStep(c)

----------------------------------------------------------------------------
(***************************************************************************)
(* createTodo (src/unnamed/part_003) and cloneAndGetSourceMap              *)
(* (src/server/api/utils.ts): invocations that follow one another, each    *)
(* cloning the repository and cleaning the clone up in a finally block.    *)
(***************************************************************************)

\* the existence check finds nothing
existingTodo_NotFound(projectId, issueNumber) == FALSE

\* db.todos.findByOptional({ projectId, issueId: issueNumber })
existingTodo(projectId, issueNumber) == todosTable[<<projectId, issueNumber>>] > 0

\* the cleanup is attempted whether or not the clone was made
RunsCleanup_Always(cleanupClone) == TRUE

\* if (cleanupClone) { await cleanupClone() }
RunsCleanup(cleanupClone) == cleanupClone

\* the finally block, entered with the function about to end as `result`
Finally(task, result) ==
    IF RunsCleanup(task.cleanupClone)
    THEN [task EXCEPT !.pc = "cleanup", !.result = result]
    ELSE [task EXCEPT !.pc = "done", !.result = result]

\* the checks of the arguments, before the first await
CallCreateTodo ==
    /\ todoTask.pc \in {"idle", "done"}
    /\ invoked < MaxInvocations
    /\ \E validRepo \in BOOLEAN, accessToken \in BOOLEAN, agentRepo \in BOOLEAN,
          projectId \in Projects, issueNumber \in IssueNumbers :
          LET task == [NoTodoTask EXCEPT
                          !.validRepo = validRepo, !.accessToken = accessToken,
                          !.agentRepo = agentRepo, !.projectId = projectId,
                          !.issueNumber = issueNumber]
          IN  todoTask' =
                  IF ~validRepo
                  THEN [task EXCEPT !.pc = "done", !.result = "invalid_repo_name"]
                  ELSE IF ~accessToken
                  THEN [task EXCEPT !.pc = "done", !.result = "token_required"]
                  ELSE [task EXCEPT !.pc = "find"]
    /\ invoked' = invoked + 1
    /\ UNCHANGED <<todosTable, mapTask>>
    /\ UNCHANGED nonTodoVars

\* the existence check: an existing todo ends the call
FindTodo ==
    /\ todoTask.pc = "find"
    /\ todoTask' =
           IF existingTodo(todoTask.projectId, todoTask.issueNumber)
           THEN [todoTask EXCEPT !.pc = "done", !.result = "returned_nothing"]
           ELSE [todoTask EXCEPT !.pc = "getIssue"]
    /\ UNCHANGED <<todosTable, mapTask, invoked>>
    /\ UNCHANGED nonTodoVars

GetIssue ==
    /\ todoTask.pc = "getIssue"
    /\ todoTask' = [todoTask EXCEPT !.pc = "clone",
                                    !.effects = @ \cup {"getIssue"}]
    /\ UNCHANGED <<todosTable, mapTask, invoked>>
    /\ UNCHANGED nonTodoVars

\* db.todos.findByOptional or getIssue throws, outside the try block
TodoRejects ==
    /\ todoTask.pc \in {"find", "getIssue"}
    /\ todoTask' = [todoTask EXCEPT !.pc = "done", !.result = "threw",
                       !.effects = IF todoTask.pc = "getIssue"
                                   THEN @ \cup {"getIssue"} ELSE @]
    /\ UNCHANGED <<todosTable, mapTask, invoked>>
    /\ UNCHANGED nonTodoVars

\* cloneRepo returns the path and the cleanup function
CloneRepo ==
    /\ todoTask.pc = "clone"
    /\ todoTask' = [todoTask EXCEPT !.pc = "extract", !.cleanupClone = TRUE,
                                    !.effects = @ \cup {"cloneRepo"}]
    /\ UNCHANGED <<todosTable, mapTask, invoked>>
    /\ UNCHANGED nonTodoVars

\* cloneRepo throws: the catch block logs it
CloneRepoFails ==
    /\ todoTask.pc = "clone"
    /\ todoTask' = Finally([todoTask EXCEPT !.effects = @ \cup {"cloneRepo"}],
                           "returned_nothing")
    /\ UNCHANGED <<todosTable, mapTask, invoked>>
    /\ UNCHANGED nonTodoVars

\* getRepoSettings, getSourceMap and getExtractedIssue (the model call)
ExtractIssue ==
    /\ todoTask.pc = "extract"
    /\ todoTask' = [todoTask EXCEPT !.pc = "create",
                                    !.effects = @ \cup {"model"}]
    /\ UNCHANGED <<todosTable, mapTask, invoked>>
    /\ UNCHANGED nonTodoVars

\* db.todos.create; research and plan follow for an agent repository
CreateTodoRecord ==
    /\ todoTask.pc = "create"
    /\ todosTable' = [todosTable EXCEPT
                         ![<<todoTask.projectId, todoTask.issueNumber>>] = @ + 1]
    /\ todoTask' =
           LET task == [todoTask EXCEPT !.effects = @ \cup {"create"}] IN
           IF task.agentRepo THEN [task EXCEPT !.pc = "research"]
           ELSE Finally(task, "returned_todo")
    /\ UNCHANGED <<mapTask, invoked>>
    /\ UNCHANGED nonTodoVars

\* researchIssue and getOrGeneratePlan return
ResearchIssue ==
    /\ todoTask.pc = "research"
    /\ todoTask' = Finally(todoTask, "returned_todo")
    /\ UNCHANGED <<todosTable, mapTask, invoked>>
    /\ UNCHANGED nonTodoVars

\* a step after the clone throws: the catch block logs it
TodoCaught ==
    /\ todoTask.pc \in {"extract", "create", "research"}
    /\ todoTask' = Finally(todoTask, "returned_nothing")
    /\ UNCHANGED <<todosTable, mapTask, invoked>>
    /\ UNCHANGED nonTodoVars

\* await cleanupClone(), returning or throwing
CleanupClone ==
    /\ todoTask.pc = "cleanup"
    /\ \E throws \in BOOLEAN :
          todoTask' = [todoTask EXCEPT !.pc = "done", !.cleanups = @ + 1,
                          !.result = IF throws THEN "threw" ELSE @]
    /\ UNCHANGED <<todosTable, mapTask, invoked>>
    /\ UNCHANGED nonTodoVars

CallCloneAndGetSourceMap ==
    /\ mapTask.pc \in {"idle", "done"}
    /\ invoked < MaxInvocations
    /\ mapTask' = [NoMapTask EXCEPT !.pc = "clone"]
    /\ invoked' = invoked + 1
    /\ UNCHANGED <<todoTask, todosTable>>
    /\ UNCHANGED nonTodoVars

MapCloneRepo ==
    /\ mapTask.pc = "clone"
    /\ mapTask' = [mapTask EXCEPT !.pc = "sourceMap", !.cleanupClone = TRUE]
    /\ UNCHANGED <<todoTask, todosTable, invoked>>
    /\ UNCHANGED nonTodoVars

\* cloneRepo throws: there is no catch block, the call rejects
MapCloneRepoFails ==
    /\ mapTask.pc = "clone"
    /\ mapTask' = Finally(mapTask, "threw")
    /\ UNCHANGED <<todoTask, todosTable, invoked>>
    /\ UNCHANGED nonTodoVars

\* getRepoSettings and getSourceMap return the source map, or throw
MapSourceMap ==
    /\ mapTask.pc = "sourceMap"
    /\ \E throws \in BOOLEAN :
          mapTask' = Finally(mapTask, IF throws THEN "threw" ELSE "returned_map")
    /\ UNCHANGED <<todoTask, todosTable, invoked>>
    /\ UNCHANGED nonTodoVars

MapCleanupClone ==
    /\ mapTask.pc = "cleanup"
    /\ \E throws \in BOOLEAN :
          mapTask' = [mapTask EXCEPT !.pc = "done", !.cleanups = @ + 1,
                         !.result = IF throws THEN "threw" ELSE @]
    /\ UNCHANGED <<todoTask, todosTable, invoked>>
    /\ UNCHANGED nonTodoVars

TodoNext ==
    \/ CallCreateTodo
    \/ FindTodo
    \/ GetIssue
    \/ TodoRejects
    \/ CloneRepo
    \/ CloneRepoFails
    \/ ExtractIssue
    \/ CreateTodoRecord
    \/ ResearchIssue
    \/ TodoCaught
    \/ CleanupClone
    \/ CallCloneAndGetSourceMap
    \/ MapCloneRepo
    \/ MapCloneRepoFails
    \/ MapSourceMap
    \/ MapCleanupClone

----------------------------------------------------------------------------
(***************************************************************************)
(* fixError (app/dashboard/[org]/[repo]/assigned-tasks/components/         *)
(* TaskItem.tsx): the attempt number is parsed from the heading of the     *)
(* error section of the pull request body, then the fix is attempted, by   *)
(* an npm install or by a rewrite of the files, and committed; a failure   *)
(* is reported in a comment on the pull request and thrown again.          *)
(* A body is a sequence of the pieces the parsing tells apart.             *)
(***************************************************************************)

\* what parseInt is not asked for: no attempt number matched
NaN == -1

\* String.prototype.indexOf, counting pieces from 0
indexOf(text, piece) ==
    IF \E i \in DOMAIN text : text[i] = piece
    THEN (CHOOSE i \in DOMAIN text :
              /\ text[i] = piece
              /\ \A j \in 1..(i - 1) : text[j] # piece) - 1
    ELSE -1

\* String.prototype.slice(from, to)
slice(text, from, to) == SubSeq(text, from + 1, to)

RECURSIVE split(_, _)
\* String.prototype.split
split(text, separator) ==
    LET i == indexOf(text, separator) IN
    IF i = -1 THEN <<text>>
    ELSE <<slice(text, 0, i)>> \o split(slice(text, i + 1, Len(text)), separator)

\* (body?.split("## Error Message") ?? [])[1], every use of which takes
\* undefined for the empty string
buildErrorSection(body) ==
    LET parts == IF body.null THEN <<>> ELSE split(body.text, ErrorMessageHeading)
    IN  IF Len(parts) >= 2 THEN parts[2] ELSE <<>>

restOfHeading(body) ==
    LET afterHeadingIndex == indexOf(buildErrorSection(body), headingEndMarker)
    IN  IF afterHeadingIndex = -1 THEN <<>>
        ELSE slice(buildErrorSection(body), 0, afterHeadingIndex)

\* parseInt of the digits of a matched "Attempt Number <digits>"
Digits(piece) == IF piece = "Attempt Number 2" THEN 2 ELSE 3

\* restOfHeading.match(/Attempt\s+Number\s+(\d+)/): the first match, or NaN
attemptNumber(body) ==
    LET heading == restOfHeading(body)
        matches == {i \in DOMAIN heading : heading[i] \in AttemptTexts}
    IN  IF matches = {} THEN NaN
        ELSE Digits(heading[CHOOSE i \in matches : \A j \in matches : i <= j])

\* isNaN(attemptNumber) ? 1 : attemptNumber
buildErrorAttemptNumber(body) ==
    IF attemptNumber(body) = NaN THEN 1 ELSE attemptNumber(body)

\* the awaited steps of the try block before checkAndCommit, in both branches
FixSteps ==
    {"runNpmInstall", "concatenatePRFiles", "bugFixPlan", "updatedCode",
     "codeGenerated", "reconstructFiles"}

NextFixStep(step) ==
    CASE step = "runNpmInstall" -> "checkAndCommit"
      [] step = "concatenatePRFiles" -> "bugFixPlan"
      [] step = "bugFixPlan" -> "updatedCode"
      [] step = "updatedCode" -> "codeGenerated"
      [] step = "codeGenerated" -> "reconstructFiles"
      [] step = "reconstructFiles" -> "checkAndCommit"

CallFixError ==
    /\ fixTask.pc = "idle"
    /\ \E prIssue \in BOOLEAN, body \in PullRequestBodies :
          fixTask' = [NoFixTask EXCEPT !.pc = "assessBuildError",
                                       !.prIssue = prIssue, !.body = body]
    /\ UNCHANGED nonFixVars

\* getIssue and assessBuildError, before the try block
AssessBuildError ==
    /\ fixTask.pc = "assessBuildError"
    /\ \E throws \in BOOLEAN, needsNpmInstall \in BOOLEAN :
          fixTask' =
              IF throws
              THEN [fixTask EXCEPT !.pc = "done", !.failed = "assessBuildError",
                                   !.result = "threw_error"]
              ELSE [fixTask EXCEPT !.needsNpmInstall = needsNpmInstall,
                       !.pc = IF needsNpmInstall THEN "runNpmInstall"
                              ELSE "concatenatePRFiles"]
    /\ UNCHANGED nonFixVars

\* a step of the try block returns
FixStep ==
    /\ fixTask.pc \in FixSteps
    /\ fixTask' = [fixTask EXCEPT !.pc = NextFixStep(fixTask.pc)]
    /\ UNCHANGED nonFixVars

\* a step of the try block throws; "No code generated" is the throw of
\* the step codeGenerated
FixStepThrows ==
    /\ fixTask.pc \in FixSteps
    /\ fixTask' = [fixTask EXCEPT !.pc = "catch", !.failed = fixTask.pc]
    /\ UNCHANGED nonFixVars

CheckAndCommit ==
    /\ fixTask.pc = "checkAndCommit"
    /\ \E throws \in BOOLEAN :
          LET task == [fixTask EXCEPT !.checkAndCommitCalls =
                          Append(@, buildErrorAttemptNumber(fixTask.body))]
          IN  fixTask' =
                  IF throws
                  THEN [task EXCEPT !.pc = "catch", !.failed = "checkAndCommit"]
                  ELSE [task EXCEPT !.pc = "done", !.result = "returned"]
    /\ UNCHANGED nonFixVars

\* catch (error) { if (prIssue) { ... } throw error; }
CatchError ==
    /\ fixTask.pc = "catch"
    /\ fixTask' =
           IF fixTask.prIssue
           THEN [fixTask EXCEPT !.pc = "addCommentToIssue"]
           ELSE [fixTask EXCEPT !.pc = "done", !.result = "threw_error"]
    /\ UNCHANGED nonFixVars

\* await addCommentToIssue(...): when it throws, throw error is not reached
AddCommentToIssue ==
    /\ fixTask.pc = "addCommentToIssue"
    /\ \E throws \in BOOLEAN :
          fixTask' =
              IF throws
              THEN [fixTask EXCEPT !.pc = "done", !.result = "threw_comment_error"]
              ELSE [fixTask EXCEPT !.pc = "done", !.comments = @ + 1,
                                   !.result = "threw_error"]
    /\ UNCHANGED nonFixVars

FixNext ==
    \/ CallFixError
    \/ AssessBuildError
    \/ FixStep
    \/ FixStepThrows
    \/ CheckAndCommit
    \/ CatchError
    \/ AddCommentToIssue

----------------------------------------------------------------------------
(* The specifications *)

Spec == Init /\ [][Next]_vars

SpecJira == Init /\ [][JiraNext]_vars

SpecJiraSerial == Init /\ [][JiraSerialNext]_vars

SpecPair == Init /\ [][PairNext]_vars

SpecJiraCallers == Init /\ [][CallersNext]_vars

SpecTodo == Init /\ [][TodoNext]_vars

SpecFixError == Init /\ [][FixNext]_vars

----------------------------------------------------------------------------
(* Vocabulary of the properties *)

\* the least p with 100 * p >= c: ceil(1% of c)
CeilPercent(c) ==
    CHOOSE p \in (c \div 100)..(c \div 100 + 1) :
        100 * p >= c /\ 100 * (p - 1) < c

\* contextWindow - inputTokens - ceil(1% of contextWindow) of a sent request
Remainder(r) ==
    CONTEXT_WINDOW(r.model) - r.inputText.tokens
        - CeilPercent(CONTEXT_WINDOW(r.model))

\* max_tokens + estimated input tokens + 1% padding of a sent request
Demand(r) ==
    r.max_tokens + r.inputText.tokens + CeilPercent(CONTEXT_WINDOW(r.model))

\* x = round(c / 2)
IsHalfOf(x, c) == 2 * x = c \/ 2 * x = c + 1

RECURSIVE Pow2(_)
Pow2(n) == IF n = 0 THEN 1 ELSE 2 * Pow2(n - 1)

Last(seq) == seq[Len(seq)]

\* the caller invoked sendGptRequest itself or through sendGptVisionRequest
Direct == entry \in {"direct", "vision"}

\* the retries and delay the running sendGptRequest call chain started with
InitialRetries == IF entry = "schema" THEN DefaultRetries ELSE args.retries

InitialDelay == IF entry = "schema" THEN DefaultDelay ELSE args.delay

\* the first k attempts met a rate limit and attempt k + 1 succeeded
RateLimitedThenOk(k) ==
    /\ Len(attempts) = k + 1
    /\ \A i \in 1..k : attempts[i].kind = "rate_limit"
    /\ attempts[k + 1].kind = "ok"

----------------------------------------------------------------------------
(* C1 *)

\* C1: every budget computed by getMaxTokensForResponse for an input with
\* contextWindow - inputTokens - ceil(1% of contextWindow) > 0 equals
\* min(contextWindow - inputTokens - padding, maxOutputTokens) and is > 0.
\* (Every request is the last of `requests` in the state it is sent in.)
C1_BudgetIsMin ==
    requests # <<>> =>
        LET r == Last(requests) IN
        (r.inputText.encodable /\ Remainder(r) > 0) =>
            /\ r.max_tokens =
                   (IF Remainder(r) <= MAX_OUTPUT(r.model)
                    THEN Remainder(r) ELSE MAX_OUTPUT(r.model))
            /\ r.max_tokens > 0

\* a budget capped by the model's maximum output, and one that is the remainder
C1_Witness ==
    /\ Len(requests) >= 1
    /\ requests[1].inputText.encodable
    /\ Remainder(requests[1]) > MAX_OUTPUT(requests[1].model)
    /\ requests[1].max_tokens = MAX_OUTPUT(requests[1].model)

----------------------------------------------------------------------------
(* C2 *)

\* C2 as stated: every request sent to the provider has max_tokens + estimated
\* input tokens + 1% padding within the model's context window (a call that
\* would break the bound sends nothing).
C2_EveryRequestWithinWindow ==
    (requests # <<>> /\ Last(requests).inputText.encodable) =>
        Demand(Last(requests)) <= CONTEXT_WINDOW(Last(requests).model)

\* C2, amended: a sent request has max_tokens + input tokens + padding within
\* the context window exactly when contextWindow - inputTokens - padding > 0;
\* otherwise the call does not fail: the request is sent all the same, with
\* max_tokens = round(contextWindow / 2), and exceeds the window.  Every
\* attempt that has passed the budget step has sent its request.
C2_WithinWindowIffBudgetPositive ==
    /\ requests # <<>> =>
           LET r == Last(requests) IN
           r.inputText.encodable =>
               /\ Remainder(r) > 0 => Demand(r) <= CONTEXT_WINDOW(r.model)
               /\ Remainder(r) <= 0 =>
                      /\ Demand(r) > CONTEXT_WINDOW(r.model)
                      /\ IsHalfOf(r.max_tokens, CONTEXT_WINDOW(r.model))
    /\ pc \in {"awaiting", "inserting"} =>
           /\ Len(requests) = Len(attempts) + 1
           /\ Last(requests).inputText = Concat(args.userPrompt, args.systemPrompt)

\* a request is at the provider although its input leaves no room in the window
C2_Witness ==
    /\ pc = "awaiting"
    /\ Last(requests).inputText.encodable
    /\ Remainder(Last(requests)) = 0
    /\ Demand(Last(requests)) > CONTEXT_WINDOW(Last(requests).model)

----------------------------------------------------------------------------
(* C3 *)

\* C3: when the input's token count exceeds the model's context window, the
\* value sent as max_tokens is exactly round(contextWindow / 2), and the call
\* is not aborted: it ends only by what the provider or the event store
\* answered to a request that was sent.
C3_OversizedInputGetsHalfWindow ==
    /\ requests # <<>> =>
           LET r == Last(requests) IN
           (r.inputText.encodable /\ r.inputText.tokens > CONTEXT_WINDOW(r.model))
               => IsHalfOf(r.max_tokens, CONTEXT_WINDOW(r.model))
    /\ (Direct /\ pc = "done") =>
           /\ Len(requests) >= 1
           /\ Len(attempts) = Len(requests)
           /\ outcome.kind = "throw" => outcome.error.kind = Last(attempts).kind

\* an oversized input was sent with half the window and the answer returned
C3_Witness ==
    /\ Direct
    /\ pc = "done"
    /\ outcome.kind = "return"
    /\ Len(requests) = 1
    /\ requests[1].inputText.tokens > CONTEXT_WINDOW(requests[1].model)
    /\ 2 * requests[1].max_tokens = CONTEXT_WINDOW(requests[1].model)

----------------------------------------------------------------------------
(* C4 *)

\* C4: in a sendGptRequest call started with retries = r and delay = d, the
\* waits scheduled so far are d, 2d, 4d, ... in that order; and when the first
\* k <= r attempts met a rate limit and attempt k + 1 succeeded, exactly k
\* retries (k waits, k + 1 provider calls) were made and the caller got the
\* content of attempt k + 1.
C4_BackoffThenResult ==
    /\ \A i \in DOMAIN waits : waits[i] = Pow2(i - 1) * InitialDelay
    /\ (Direct /\ pc = "done") =>
           \A k \in 0..InitialRetries :
               RateLimitedThenOk(k) =>
                   /\ Len(waits) = k
                   /\ Len(requests) = k + 1
                   /\ outcome = Returned(attempts[k + 1].content)

\* r = 10, d = 60000, two rate limits, then success: waits 60000 and 120000
C4_Witness ==
    /\ entry = "direct"
    /\ pc = "done"
    /\ args.retries = 10
    /\ args.delay = 60000
    /\ RateLimitedThenOk(2)
    /\ waits = <<60000, 120000>>
    /\ outcome.kind = "return"
    /\ outcome.value.kind = "text"

----------------------------------------------------------------------------
(* C5 *)

\* C5: an attempt of sendGptRequest that fails with an error other than a rate
\* limit is the last attempt: no wait follows it, no further request is sent,
\* and a direct caller is thrown that very error, whatever retries remained.
C5_OtherErrorsNotRetried ==
    \A i \in DOMAIN attempts :
        attempts[i].kind \in {"provider", "persistence"} =>
            /\ i = Len(attempts)
            /\ Len(requests) = i
            /\ Len(waits) = i - 1
            /\ pc = "done"
            /\ Direct => outcome = Thrown(Error(attempts[i].kind, i))

\* a provider error on the first attempt, with all ten retries left
C5_Witness ==
    /\ entry = "direct"
    /\ pc = "done"
    /\ args.retries = 10
    /\ frame.retries = 10
    /\ Len(attempts) = 1
    /\ attempts[1].kind = "provider"
    /\ waits = <<>>
    /\ outcome = Thrown(Error("provider", 1))

----------------------------------------------------------------------------
(* C6 *)

\* C6: a sendGptRequest call started with retries = r >= 0 never sends more
\* than r + 1 requests and never waits with its counter at 0; when every
\* attempt met a rate limit it made exactly r + 1 provider calls, waited r
\* times, and threw the rate-limit error of the last call.
C6_RetriesBounded ==
    /\ Len(requests) <= InitialRetries + 1
    /\ frame.retries >= 0
    /\ pc = "backoff" => frame.retries > 0
    /\ (/\ Direct
        /\ pc = "done"
        /\ \A i \in DOMAIN attempts : attempts[i].kind = "rate_limit") =>
           /\ Len(requests) = args.retries + 1
           /\ Len(waits) = args.retries
           /\ outcome = Thrown(Error("rate_limit", args.retries + 1))

\* the default r = 10 under a provider that always answers 429: 11 calls
C6_Witness ==
    /\ entry = "direct"
    /\ pc = "done"
    /\ args.retries = 10
    /\ Len(requests) = 11
    /\ \A i \in DOMAIN attempts : attempts[i].kind = "rate_limit"
    /\ outcome.kind = "throw"
    /\ outcome.error = Error("rate_limit", 11)

----------------------------------------------------------------------------
(* Vocabulary of the extractor's properties *)

\* the data the schema gives for a list of elements it accepts
SchemaData(elems) == [i \in DOMAIN elems |-> safeParse(elems[i]).data]

\* a value sendGptRequestWithSchema may return: data the schema validated
IsValidatedData(value) ==
    /\ value.kind \in {"array", "value"}
    /\ value.kind = "value" => Len(value.data) = 1
    /\ \A i \in DOMAIN value.data :
           \E item \in ValidItems : value.data[i] = safeParse(item).data

----------------------------------------------------------------------------
(* C7 *)

\* C7: sendGptRequestWithSchema with maxRetries = n never makes more than n
\* dispatcher calls; when it throws, it has made exactly n calls (every one
\* of them a failed attempt) and the error is 'Max retries exceeded' carrying
\* the user prompt; what it returns is always data the schema validated.
C7_MaxRetriesExceeded ==
    entry = "schema" =>
        /\ dispatcherCalls <= args.maxRetries
        /\ (pc = "done" /\ outcome.kind = "throw") =>
               /\ dispatcherCalls = args.maxRetries
               /\ Len(extractorLog) = args.maxRetries
               /\ outcome.error = MaxRetriesExceeded(args.userPrompt)
        /\ (pc = "done" /\ outcome.kind = "return") =>
               IsValidatedData(outcome.value)

\* the default maxRetries = 3 with three rejected responses
C7_Witness ==
    /\ entry = "schema"
    /\ pc = "done"
    /\ args.maxRetries = 3
    /\ dispatcherCalls = 3
    /\ Len(extractorLog) = 3
    /\ \A i \in DOMAIN extractorLog : extractorLog[i] = "invalid"
    /\ outcome.kind = "throw"
    /\ outcome.error.kind = "max_retries"
    /\ outcome.error.prompt = {args.userPrompt}

----------------------------------------------------------------------------
(* C8 *)

----------------------------------------------------------------------------
(* C9 *)

\* C9: when the response that ends sendGptRequestWithSchema is a fenced JSON
\* array whose elements all pass the schema, the function returns the list
\* of the schema's data for each element, same length, same order.
C9_FencedArrayReturned ==
    (/\ entry = "schema"
     /\ pc = "done"
     /\ attempts # <<>>
     /\ Last(attempts).kind = "ok"
     /\ Len(Last(attempts).content.text) = 3) =>
        \A a \in Arrays :
            (/\ Last(attempts).content = Content(Fenced(<<ArrayLine(a)>>))
             /\ \A i \in DOMAIN a : safeParse(a[i]).success) =>
                /\ outcome.kind = "return"
                /\ outcome.value.kind = "array"
                /\ Len(outcome.value.data) = Len(a)
                /\ outcome.value.data = SchemaData(a)

\* the fenced array [a2, a1] came back as its normalized data, in order
C9_Witness ==
    /\ entry = "schema"
    /\ pc = "done"
    /\ attempts # <<>>
    /\ Last(attempts).content = Content(Fenced(<<ArrayLine(<<"a2", "a1">>)>>))
    /\ outcome.kind = "return"
    /\ outcome.value.data = <<"A2", "A1">>

----------------------------------------------------------------------------
(* C10 *)

\* C10 as stated: a provider error other than a rate limit ends the call at
\* once with that error, for a direct call and for a call through
\* sendGptRequestWithSchema alike.
C10_ProviderErrorSurfaced ==
    /\ (Direct /\ attempts # <<>> /\ Last(attempts).kind = "provider") =>
           (pc = "done" /\ outcome = Thrown(Error("provider", Len(attempts))))
    /\ (entry = "schema" /\ extractorLog # <<>>
            /\ Last(extractorLog) = "provider") =>
           (pc = "done" /\ outcome.kind = "throw"
                /\ outcome.error.kind = "provider")

\* C10, amended: a provider error other than a rate limit ends a direct
\* sendGptRequest or sendGptVisionRequest call at once with that error and no
\* retry.  In a call through sendGptRequestWithSchema the extractor catches
\* it: it consumes one attempt like any failed attempt, a fresh dispatcher
\* call follows while attempts remain, and when they are exhausted the caller
\* is thrown 'Max retries exceeded', never the provider's error.
C10_ProviderErrorConsumesAttempt ==
    /\ (Direct /\ attempts # <<>> /\ Last(attempts).kind = "provider") =>
           /\ pc = "done"
           /\ outcome = Thrown(Error("provider", Len(attempts)))
           /\ Len(requests) = Len(attempts)
    /\ entry = "schema" =>
           /\ Len(extractorLog) = schemaRetries
           /\ schemaRetries <= args.maxRetries
           /\ pc # "done" => dispatcherCalls = schemaRetries + 1
           /\ pc # "done" => schemaRetries < args.maxRetries
           /\ (pc = "done" /\ outcome.kind = "throw") =>
                  /\ schemaRetries = args.maxRetries
                  /\ outcome.error.kind = "max_retries"

\* after a provider error in the first attempt the extractor called again,
\* and the second attempt's data was returned
C10_Witness ==
    /\ entry = "schema"
    /\ pc = "done"
    /\ extractorLog = <<"provider">>
    /\ dispatcherCalls = 2
    /\ outcome.kind = "return"

----------------------------------------------------------------------------
(* C11 *)

\* C11: every request of a sendGptVisionRequest call made with a non-empty
\* image URL goes to the vision model with the messages (image block, system,
\* user), image first; every request of a call made without an image URL
\* goes to the default text model with exactly the two messages system, user.
C11_VisionRequestShape ==
    (entry = "vision" /\ requests # <<>>) =>
        LET r == Last(requests) IN
        IF args.snapshotUrl
        THEN r.model = VisionModel /\ r.messages = <<"image", "system", "user">>
        ELSE r.model = DefaultModel /\ r.messages = <<"system", "user">>

----------------------------------------------------------------------------
(* C12 *)

\* C12: every attempt of one logical request, each retry after a rate-limit
\* failure included, is sent with the same model, the same image block, the
\* same system and user prompts and the same temperature as the first attempt.
C12_AttemptsSentAlike ==
    requests # <<>> =>
        LET first == requests[1]
            r == Last(requests)
        IN  /\ r.model = first.model
            /\ r.messages = first.messages
            /\ r.inputText = first.inputText
            /\ r.temperature = first.temperature

----------------------------------------------------------------------------
(* C13 *)

\* the attempts of the running call chain that ended with the response returned
OkAttempts == {i \in DOMAIN attempts : attempts[i].kind = "ok"}

\* the sendGptRequest calls of the extractor whose provider call succeeded and
\* whose usage event, if any, was written: those that returned a response
ReturnedCalls ==
    Cardinality({i \in DOMAIN extractorLog :
                     extractorLog[i] \in {"empty", "invalid"}})
        + (IF pc = "done" /\ outcome.kind = "return" THEN 1 ELSE 0)

\* C13: the usage events written are exactly one per provider call that
\* succeeded (and whose write the event store accepted) when baseEventData was
\* supplied, and none when it was not supplied; a failed provider call writes
\* none, so over a retried request only the successful attempt writes one.
C13_OneEventPerSuccessfulCall ==
    events = (IF ~args.baseEventData THEN 0
              ELSE IF entry = "schema" THEN ReturnedCalls
              ELSE Cardinality(OkAttempts))

\* a request with baseEventData met a rate limit, was retried and succeeded:
\* one event
C13_Witness ==
    /\ Direct
    /\ args.baseEventData
    /\ pc = "done"
    /\ RateLimitedThenOk(1)
    /\ events = 1

----------------------------------------------------------------------------
(* C14 *)

\* C14: when the provider call of a sendGptRequest attempt succeeded and
\* writing its usage event failed, the call is over: the caller is thrown the
\* persistence error and is not returned the response, no event is counted
\* for the attempt, no wait is scheduled and no further request is sent, so
\* the provider call is not repeated.
C14_PersistenceErrorEndsCall ==
    (Direct /\ attempts # <<>> /\ Last(attempts).kind = "persistence") =>
        /\ pc = "done"
        /\ outcome.kind = "throw"
        /\ outcome.error = Error("persistence", Len(attempts))
        /\ outcome.value = NullContent
        /\ Len(requests) = Len(attempts)
        /\ Len(waits) = Len(attempts) - 1
        /\ events = 0

\* the provider answered a parsable text, the insert failed with retries left
C14_Witness ==
    /\ entry = "direct"
    /\ pc = "done"
    /\ frame.retries > 0
    /\ Len(attempts) = 1
    /\ attempts[1].kind = "persistence"
    /\ attempts[1].content = Content(<<ArrayLine(<<"a1">>)>>)
    /\ outcome.kind = "throw"
    /\ outcome.error.kind = "persistence"

----------------------------------------------------------------------------
(* C16 *)

\* a response sendGptRequest may return that is null or the empty string
IsEmptyResponse(content) == content.kind = "null" \/ content.text = EmptyString

\* the step in which the usage event is written and the response held in
\* `pending` is handed to sendGptRequestWithSchema
ExtractorReceivesPending ==
    entry = "schema" /\ pc = "inserting" /\ events' = events + 1

\* the step took one attempt for the reason `why` and went on as the loop does
ConsumesOneAttempt(why) ==
    /\ schemaRetries' = schemaRetries + 1
    /\ extractorLog' = Append(extractorLog, why)
    /\ IF schemaRetries + 1 < args.maxRetries
       THEN /\ pc' = "send"
            /\ dispatcherCalls' = dispatcherCalls + 1
            /\ requests' = <<>>
            /\ outcome' = NoOutcome
       ELSE /\ pc' = "done"
            /\ dispatcherCalls' = dispatcherCalls
            /\ outcome' = Thrown(MaxRetriesExceeded(args.userPrompt))

\* C16: in sendGptRequestWithSchema an empty or null response is a failed
\* attempt: it takes exactly one attempt ('Empty response'), a fresh
\* sendGptRequest call follows it while attempts remain and 'Max retries
\* exceeded' is thrown when none does; an empty or null response is never
\* what the function returns.
C16_EmptyResponseConsumesAttempt ==
    /\ [](entry = "schema" =>
            /\ \A i \in DOMAIN extractorLog :
                   extractorLog[i] = "empty" =>
                       /\ schemaRetries >= i
                       /\ i < args.maxRetries => dispatcherCalls >= i + 1
                       /\ i = args.maxRetries => pc = "done"
            /\ (pc = "done" /\ outcome.kind = "return") =>
                   /\ ~IsEmptyResponse(Last(attempts).content)
                   /\ outcome.value.kind \in {"array", "value"}
                   /\ outcome.value.data # <<>> \/ outcome.value.kind = "array")
    /\ [][(ExtractorReceivesPending /\ IsEmptyResponse(pending)) =>
              ConsumesOneAttempt("empty")]_vars

\* an empty first response, then a second call whose data was returned
C16_Witness ==
    /\ entry = "schema"
    /\ pc = "done"
    /\ extractorLog = <<"empty">>
    /\ schemaRetries = 1
    /\ dispatcherCalls = 2
    /\ outcome.kind = "return"

----------------------------------------------------------------------------
(* C17 *)

\* what sendGptRequestWithSchema makes of the response `content`
ExtractedFrom(content) == Extract(Returned(content))

\* C17: with maxRetries = n, when sendGptRequestWithSchema returns, the
\* attempt k whose response parsed and validated is the first such attempt
\* (the k - 1 before it failed), 1 <= k <= n, exactly k sendGptRequest calls
\* were made, what is returned is the validated data of the k-th response,
\* and no call is made afterwards; the attempt counter never exceeds n.
C17_FirstValidAttemptReturned ==
    /\ [](entry = "schema" =>
            /\ schemaRetries <= args.maxRetries
            /\ (pc = "done" /\ outcome.kind = "return") =>
                   LET k == dispatcherCalls IN
                   /\ 1 <= k /\ k <= args.maxRetries
                   /\ schemaRetries = k - 1
                   /\ Len(extractorLog) = k - 1
                   /\ Last(attempts).kind = "ok"
                   /\ ExtractedFrom(Last(attempts).content).ok
                   /\ outcome.value = ExtractedFrom(Last(attempts).content).data)
    /\ [][(entry = "schema" /\ pc = "done") =>
              (dispatcherCalls' = dispatcherCalls /\ requests' = requests)]_vars

\* two rejected responses, then the third attempt of three returned its data
C17_Witness ==
    /\ entry = "schema"
    /\ pc = "done"
    /\ args.maxRetries = 3
    /\ Len(extractorLog) = 2
    /\ schemaRetries = 2
    /\ dispatcherCalls = 3
    /\ outcome.kind = "return"
    /\ outcome.value.data = <<"A1">>

----------------------------------------------------------------------------
(* C18 *)

\* the parsed response is a list with an element the schema rejects
HasInvalidElement(content) ==
    /\ ~IsEmptyResponse(content)
    /\ LET extractedInfo == parse(removeMarkdownCodeblocks(content.text)) IN
       /\ extractedInfo.kind = "array"
       /\ \E i \in DOMAIN extractedInfo.elems :
              ~safeParse(extractedInfo.elems[i]).success

\* C18: when the parsed response is a list with at least one element failing
\* validation, the whole attempt fails and takes one attempt; what
\* sendGptRequestWithSchema returns for a list response is the data of every
\* element of the list, never of a part of it.
C18_NoPartialList ==
    /\ [](entry = "schema" /\ pc = "done" /\ outcome.kind = "return" =>
            LET content == Last(attempts).content
                extractedInfo == parse(removeMarkdownCodeblocks(content.text))
            IN  /\ ~HasInvalidElement(content)
                /\ extractedInfo.kind = "array" =>
                       /\ outcome.value.kind = "array"
                       /\ outcome.value.data = SchemaData(extractedInfo.elems)
                       /\ \A i \in DOMAIN extractedInfo.elems :
                              extractedInfo.elems[i] \in ValidItems)
    /\ [](entry = "schema" /\ pc = "done" /\ outcome.kind = "throw"
              /\ attempts # <<>> /\ Last(attempts).kind = "ok"
              /\ HasInvalidElement(Last(attempts).content) =>
            /\ Last(extractorLog) = "invalid"
            /\ schemaRetries = Len(extractorLog))
    /\ [][(ExtractorReceivesPending /\ HasInvalidElement(pending)) =>
              ConsumesOneAttempt("invalid")]_vars

\* the list [a1, bad] of the second and last attempt was rejected whole
C18_Witness ==
    /\ entry = "schema"
    /\ pc = "done"
    /\ args.maxRetries = 2
    /\ Len(extractorLog) = 2
    /\ extractorLog[2] = "invalid"
    /\ schemaRetries = 2
    /\ Last(attempts).content = Content(<<ArrayLine(<<"a1", "bad">>)>>)
    /\ outcome.kind = "throw"
    /\ outcome.error.kind = "max_retries"

----------------------------------------------------------------------------
(* C19 *)

JiraKeys == Boards \X IssueIds

\* C19: over any sequence of runs of fetchNewJiraIssues that do not overlap,
\* the issues table holds at most one record per (issueBoardId, issueId) and
\* createGitHubIssue is called at most once per Jira issue; an issue is
\* skipped only when it is recorded, and for a recorded issue the run
\* creates no record and no GitHub issue.
C19_NoDuplicatesInSerialRuns ==
    /\ [](\A k \in JiraKeys : issuesTable[k] <= 1 /\ gitHubIssues[k] <= 1)
    /\ [](\A c \in Callers : \A issue \in jobs[c].skipped :
              issuesTable[<<jobs[c].board, issue>>] = 1)
    /\ [][\A c \in Callers :
              (/\ jobs[c].pc = "find"
               /\ existingIssue(jobs[c].board, Head(jobs[c].issues))
               /\ jobs'[c] # jobs[c]) =>
                  /\ issuesTable' = issuesTable
                  /\ gitHubIssues' = gitHubIssues
                  /\ jobs'[c].pc # "create"]_vars

\* the second run found the issue the first run had recorded and skipped it
C19_Witness ==
    /\ started = 2
    /\ jobs["cron"].pc = "done"
    /\ jobs["sync"].pc = "done"
    /\ jobs["sync"].board = "b2"
    /\ jobs["sync"].skipped = {"10001"}
    /\ issuesTable[<<"b2", "10001">>] = 1
    /\ gitHubIssues[<<"b2", "10001">>] = 1

----------------------------------------------------------------------------
(* C20 *)

\* C20: when two runs of fetchNewJiraIssues for the same board interleave,
\* no Jira issue gets two records in the issues table and no Jira issue gets
\* two GitHub issues.
C20_NoDuplicatesWhenInterleaved ==
    \A k \in JiraKeys : issuesTable[k] < 2 /\ gitHubIssues[k] < 2

----------------------------------------------------------------------------
(* C15 *)

\* the recursive invocations a call has made: one per timer that fired
Recursions(call) ==
    IF call.pc = "send" THEN Len(call.requests) ELSE Len(call.requests) - 1

\* the n-th request of a call, from its own arguments alone
OwnRequest(a, n) ==
    LET model == IF n = 1 THEN a.model ELSE DefaultModel
        imagePrompt == IF n = 1 THEN a.imagePrompt ELSE FALSE
        inputText == Concat(a.userPrompt, a.systemPrompt)
    IN  [model |-> model,
         messages |-> Messages(imagePrompt),
         max_tokens |-> getMaxTokensForResponse(inputText, model),
         temperature |-> a.temperature,
         inputText |-> inputText]

\* the outcome of a call, from the provider's and the store's last answer to it
OwnOutcome(call) ==
    LET last == Last(call.attempts) IN
    IF last.kind = "ok" THEN Returned(last.content)
    ELSE Thrown(Error(last.kind, Len(call.attempts)))

\* the call's messages, token budget, retry counter, delay, usage events and
\* outcome are what its own arguments and the answers it got make them
DependsOnOwnInputs(t) ==
    LET call == calls[t]
        a == call.args
    IN  call.pc # "idle" =>
            /\ call.frame.retries = a.retries - Recursions(call)
            /\ call.frame.delay = a.delay * Pow2(Recursions(call))
            /\ \A n \in DOMAIN call.requests : call.requests[n] = OwnRequest(a, n)
            /\ \A n \in DOMAIN call.waits :
                   /\ call.waits[n] = a.delay * Pow2(n - 1)
                   /\ call.attempts[n].kind = "rate_limit"
            /\ eventStore[t] =
                   (IF a.baseEventData
                    THEN Cardinality({n \in DOMAIN call.attempts :
                                          call.attempts[n].kind = "ok"})
                    ELSE 0)
            /\ call.pc = "done" => call.outcome = OwnOutcome(call)

\* C15: two concurrent sendGptRequest calls share no mutable state: in every
\* interleaving each call's requests (messages, token budget), retry
\* counter, delay, usage events and outcome are determined by its own
\* arguments and the answers it received; a step of one call changes nothing
\* of the other; and a call that is not itself waiting can always take its
\* next step, whether or not the other call is waiting in backoff.
C15_ConcurrentCallsIndependent ==
    /\ [](\A t \in Tasks : DependsOnOwnInputs(t))
    /\ [](\A t \in Tasks :
              calls[t].pc \notin {"idle", "done"} => ENABLED PairStep(t))
    /\ [][\A t \in Tasks :
              calls'[t] # calls[t] =>
                  \A u \in Tasks \ {t} :
                      calls'[u] = calls[u] /\ eventStore'[u] = eventStore[u]]_vars

\* while t1 waits in backoff, t2, called with other arguments, has sent its
\* request, written its usage event and returned
C15_Witness ==
    /\ calls["t1"].pc = "backoff"
    /\ calls["t1"].args.delay = 2
    /\ ~calls["t1"].args.baseEventData
    /\ calls["t2"].pc = "done"
    /\ calls["t2"].args.model = VisionModel
    /\ calls["t2"].args.baseEventData
    /\ calls["t2"].outcome = Returned(Content(<<<<"prose">>>>))
    /\ eventStore = [t \in Tasks |-> IF t = "t2" THEN 1 ELSE 0]

----------------------------------------------------------------------------
(* C21 *)

\* C21: while the Jira search answers 401, each 401 is followed by one
\* re-attempt of fetchNewJiraIssues with numAttempts increased by 1; a run
\* makes at most 4 search requests, the fourth 401 ends it by rejecting with
\* 'Failed to fetch Jira issues' (never swallowed by the catch block), and a
\* run that has not got past the search creates no issue record and no
\* GitHub issue.
C21_UnauthorizedGivesUpAfterFour ==
    /\ [](\A c \in Callers :
              /\ jobs[c].numAttempts <= 4
              /\ jobs[c].pc = "search" => jobs[c].numAttempts <= 3
              /\ jobs[c].result = "failed_to_fetch" <=>
                     (jobs[c].pc = "done" /\ jobs[c].numAttempts = 4)
              /\ jobs[c].result = "failed_to_fetch" =>
                     (~jobs[c].caught /\ jobs[c].skipped = {}))
    /\ [][\A c \in Callers :
              /\ jobs'[c].numAttempts # jobs[c].numAttempts =>
                     \/ jobs'[c].numAttempts = 0
                     \/ /\ jobs[c].pc = "search"
                        /\ jobs'[c].numAttempts = jobs[c].numAttempts + 1
                        /\ jobs'[c].pc = "search" \/ jobs'[c].result = "failed_to_fetch"
              /\ jobs'[c].pc = "search" =>
                     jobs[c].pc \in {"idle", "done", "search"}
              /\ (jobs[c].pc = "search" /\ jobs'[c] # jobs[c]
                      /\ jobs'[c].pc \in {"search", "done"}) =>
                     (issuesTable' = issuesTable /\ gitHubIssues' = gitHubIssues)
             ]_vars

\* four searches answered 401: the run rejected, with nothing created
C21_Witness ==
    /\ jobs["sync"].pc = "done"
    /\ jobs["sync"].result = "failed_to_fetch"
    /\ jobs["sync"].numAttempts = 4
    /\ \A k \in JiraKeys : issuesTable[k] = 0 /\ gitHubIssues[k] = 0

----------------------------------------------------------------------------
(* C23 *)

\* C23: whenever no run of fetchNewJiraIssues is under way, every Jira issue
\* that has a record in the issues table has had a GitHub issue created for
\* it, whatever way the runs ended.
C23_RecordedIssuesHaveGitHubIssue ==
    (\A c \in Callers : ~Running(c)) =>
        \A k \in JiraKeys : issuesTable[k] > 0 => gitHubIssues[k] > 0

----------------------------------------------------------------------------
(* C22 *)

\* C22: fetchAllNewJiraIssues never throws, and it processes the boards of
\* its list one after another in list order: the boards processed so far
\* are a prefix of the list, whatever way each of them ended, and when the
\* function has returned every board of the list has been processed.
C22_EveryBoardProcessedInOrder ==
    /\ cronTask.result \in {"none", "returned"}
    /\ cronTask.pc = "done" <=> cronTask.result = "returned"
    /\ Len(cronTask.processed) <= Len(cronTask.list)
    /\ \A n \in DOMAIN cronTask.processed :
           cronTask.processed[n].board = cronTask.list[n]
    /\ cronTask.pc \in {"precheck", "calling"} =>
           /\ cronTask.rest # <<>>
           /\ cronTask.rest =
                  SubSeq(cronTask.list, Len(cronTask.processed) + 1,
                         Len(cronTask.list))
    /\ cronTask.pc = "done" => Len(cronTask.processed) = Len(cronTask.list)

\* the first board's fetchNewJiraIssues rejected, and the second board was
\* processed all the same, with a GitHub issue created
C22_Witness ==
    /\ cronTask.pc = "done"
    /\ cronTask.list = <<"b2", "b1">>
    /\ cronTask.processed = <<[board |-> "b2", outcome |-> "failed_to_fetch"],
                              [board |-> "b1", outcome |-> "resolved"]>>
    /\ gitHubIssues[<<"b1", "10001">>] = 1
    /\ syncTask.pc = "idle"

----------------------------------------------------------------------------
(* C24 *)

\* C24: syncJiraBoard returns { success: true } only when the run of
\* fetchNewJiraIssues it awaited met no error: a search response that is not
\* ok, or an error while an issue is processed, makes it fail.
C24_SuccessOnlyWithoutError ==
    syncTask.result = "success" => ~syncTask.caught

----------------------------------------------------------------------------
(* C25: createTodo is idempotent per (projectId, issueNumber). A call that  *)
(* finds a todo for its pair ends without fetching the issue, cloning,      *)
(* calling the model or creating a record; over calls that follow one       *)
(* another there is at most one todo per pair; and a call with an invalid   *)
(* repo name or without an access token throws before any effect.           *)
TodoOf(task) == todosTable[<<task.projectId, task.issueNumber>>]

C25_CreateTodoIdempotent ==
    /\ [](\A k \in TodoKeys : todosTable[k] <= 1)
    /\ [](todoTask.pc # "idle" /\ (~todoTask.validRepo \/ ~todoTask.accessToken)
            => /\ todoTask.pc = "done"
               /\ todoTask.result = IF ~todoTask.validRepo THEN "invalid_repo_name"
                                    ELSE "token_required"
               /\ todoTask.effects = {})
    /\ [][todoTask.pc = "find" /\ todoTask' # todoTask /\ TodoOf(todoTask) > 0
            => /\ todoTask'.pc = "done"
               /\ todoTask'.effects = {}
               /\ todosTable' = todosTable]_vars

C25_Witness ==
    /\ todoTask.pc = "done"
    /\ todoTask.result = "returned_nothing"
    /\ todoTask.effects = {}
    /\ TodoOf(todoTask) = 1
    /\ invoked >= 2

----------------------------------------------------------------------------
(* C26: in createTodo and in cloneAndGetSourceMap, once cloneRepo has       *)
(* succeeded the cleanup is called exactly once before the function         *)
(* finishes, whether the later steps succeed or throw; when cloneRepo       *)
(* fails no cleanup is called.                                              *)
CleanedUpOnce(task) ==
    /\ task.cleanups <= 1
    /\ task.pc = "done" => task.cleanups = IF task.cleanupClone THEN 1 ELSE 0
    /\ task.pc \notin {"done", "idle"} => task.cleanups = 0

C26_CleanupExactlyOnce ==
    /\ CleanedUpOnce(todoTask)
    /\ CleanedUpOnce(mapTask)

C26_Witness ==
    /\ todoTask.pc = "done"
    /\ todoTask.cleanupClone
    /\ todoTask.cleanups = 1
    /\ todoTask.result = "returned_nothing"
    /\ "create" \notin todoTask.effects
    /\ mapTask.pc = "done"
    /\ ~mapTask.cleanupClone
    /\ mapTask.cleanups = 0
    /\ mapTask.result = "threw"

----------------------------------------------------------------------------
(* C27: when a step of the fix phase of fixError fails, a failure comment   *)
(* is posted on the PR issue exactly once if prIssue is present, and the    *)
(* original error is thrown again to the caller; on success checkAndCommit  *)
(* has been called exactly once, with the attempt number parsed from the    *)
(* error heading, or 1 when there is none, and no comment is posted.        *)
FixPhaseFailed(task) ==
    task.pc = "done" /\ task.failed \in FixSteps \cup {"checkAndCommit"}

C27_FailureCommentedAndRethrown ==
    /\ FixPhaseFailed(fixTask)
         => /\ fixTask.comments = IF fixTask.prIssue THEN 1 ELSE 0
            /\ fixTask.result = "threw_error"
    /\ fixTask.pc = "done" /\ fixTask.result = "returned"
         => /\ fixTask.checkAndCommitCalls =
                   <<buildErrorAttemptNumber(fixTask.body)>>
            /\ fixTask.comments = 0

====
